---- MODULE Spec2Model ----
(***************************************************************************)
(* Model of the PortfolioTable component of src/pages/_app.tsx: the        *)
(* polling effect (fetchAndSet, setInterval, clearInterval), the local     *)
(* collection `data`, and the render-time sector aggregation               *)
(* (groupedBySector, chartData).                                           *)
(*                                                                         *)
(* Numbers are modelled as integers: the amounts drawn below are exactly   *)
(* representable, so `+=` on them is exact.  A holding keeps only the      *)
(* fields the aggregation reads; the other StockData fields are passed to  *)
(* the table library untouched.                                            *)
(***************************************************************************)
EXTENDS Integers, Sequences, FiniteSets, TLC

VARIABLES
    mounted,          \* "pending" (effect not yet run), "mounted", "unmounted"
    timer,            \* TRUE while the setInterval registration is live
    ticks,            \* number of times the interval callback has fired
    issued,           \* number of fetchAndSet calls started; fetch ids are 1..issued
    inflight,         \* ids of the fetches awaiting fetchPortfolio()
    resolved,         \* ids of the fetches whose fetchPortfolio() fulfilled
    failSeen,         \* value of `issued` when the latest fetch rejected (0: none yet)
    portfolio,        \* the list returned to the latest fulfilled fetchAndSet
    data,             \* the useState collection
    dataFrom,         \* id of the fetch whose setData produced `data` (0: initial [])
    setAfterCleanup,  \* TRUE when the latest setData ran after clearInterval
    groupedBySector,  \* render output: own entries of the accumulator, in property order
    chartData,        \* render output: the pie chart rows
    tainted,          \* built-in members of Object.prototype the reducer has written to
    pc                \* "render": the component function is about to run; "idle" otherwise

vars == <<mounted, timer, ticks, issued, inflight, resolved, failSeen, portfolio,
          data, dataFrom, setAfterCleanup, groupedBySector, chartData, tainted, pc>>

----------------------------------------------------------------------------
(* Bounds *)

MaxLen == 3          \* longest holdings list given to the aggregation
MaxFetches == 3      \* fetches started in one run of the component
MaxRespLen == 2      \* longest list a fetch returns in the component runs

----------------------------------------------------------------------------
(* Holdings *)

\* stands for the JavaScript value `undefined` of a holding without a sector
Missing == "<missing>"

\* "7" and "30" are integer-like property keys, "constructor" is a member
\* that every object literal inherits
Sectors == {"Tech", "7", "30", "constructor", Missing}

Fields == {"purchasePrice", "investment", "presentValue", "gainLoss"}

StockData ==
    [sector : Sectors, purchasePrice : {1, 2}, investment : {4},
     presentValue : {6}, gainLoss : {-2, 2}]

\* the holdings the fetches of the component runs return
ResponseHoldings ==
    { [sector |-> "Tech", purchasePrice |-> 1, investment |-> 4,
       presentValue |-> 6, gainLoss |-> 2],
      [sector |-> "7", purchasePrice |-> 2, investment |-> 4,
       presentValue |-> 6, gainLoss |-> -2] }

ListsUpTo(S, n) == UNION { [1..k -> S] : k \in 0..n }

AggInputs == ListsUpTo(StockData, MaxLen)

Responses == ListsUpTo(ResponseHoldings, MaxRespLen)

----------------------------------------------------------------------------
(* Sector aggregation: data.reduce(..., {}) and Object.entries(...).map     *)

\* members an object literal inherits from Object.prototype; all are truthy
ObjectPrototypeKeys ==
    {"constructor", "toString", "toLocaleString", "valueOf", "hasOwnProperty",
     "isPrototypeOf", "propertyIsEnumerable", "__proto__"}

\* acc[stock.sector] converts the key to a string
ToPropertyKey(s) == IF s = Missing THEN "undefined" ELSE s

\* integer-like keys and their numeric value
IndexValue == ("7" :> 7) @@ ("30" :> 30)

IsArrayIndex(k) == k \in DOMAIN IndexValue

HasOwn(obj, k) == \E i \in 1..Len(obj) : obj[i].key = k

OwnKeys(obj) == { obj[i].key : i \in 1..Len(obj) }

\* !acc[k] is false for an own summary object and for an inherited member
Truthy(obj, k) == HasOwn(obj, k) \/ k \in ObjectPrototypeKeys

ZeroSummary == [purchasePrice |-> 0, investment |-> 0, presentValue |-> 0, gainLoss |-> 0]

\* acc[k] = {...}: a new own property; integer-like keys are kept first, in
\* ascending numeric order, the other keys follow in creation order
DefineOwn(obj, k, v) ==
    LET pos == IF IsArrayIndex(k)
               THEN Cardinality({ i \in 1..Len(obj) :
                        /\ IsArrayIndex(obj[i].key)
                        /\ IndexValue[obj[i].key] < IndexValue[k] })
               ELSE Len(obj)
    IN SubSeq(obj, 1, pos) \o << [key |-> k, value |-> v] >> \o SubSeq(obj, pos + 1, Len(obj))

AddStockSwapped(summary, stock) ==
    [ investment    |-> summary.investment + stock.presentValue,
      presentValue  |-> summary.presentValue + stock.investment,
      purchasePrice |-> summary.purchasePrice + stock.purchasePrice,
      gainLoss      |-> summary.gainLoss + stock.gainLoss ]

AddStock(summary, stock) ==
    [ investment    |-> summary.investment + stock.investment,
      presentValue  |-> summary.presentValue + stock.presentValue,
      purchasePrice |-> summary.purchasePrice + stock.purchasePrice,
      gainLoss      |-> summary.gainLoss + stock.gainLoss ]

\* the reducer callback; acc.own are the accumulator's own entries, acc.hit
\* the inherited members whose fields the four `+=` wrote (they become NaN
\* there and never reach the accumulator)
Reducer(acc, stock) ==
    LET k    == ToPropertyKey(stock.sector)
        own1 == IF ~Truthy(acc.own, k) THEN DefineOwn(acc.own, k, ZeroSummary) ELSE acc.own
    IN IF HasOwn(own1, k)
       THEN [ own |-> [ i \in 1..Len(own1) |->
                          IF own1[i].key = k
                          THEN [key |-> k, value |-> AddStock(own1[i].value, stock)]
                          ELSE own1[i] ],
              hit |-> acc.hit ]
       ELSE [ own |-> own1, hit |-> acc.hit \cup {k} ]

RECURSIVE Reduce(_, _, _)
Reduce(list, acc, i) ==
    IF i > Len(list) THEN acc ELSE Reduce(list, Reducer(acc, list[i]), i + 1)

GroupedBySector(list) == Reduce(list, [own |-> <<>>, hit |-> {}], 1)

ChartData(obj) ==
    [ i \in 1..Len(obj) |->
        [ name          |-> obj[i].key,
          investment    |-> obj[i].value.investment,
          purchasePrice |-> obj[i].value.purchasePrice,
          presentValue  |-> obj[i].value.presentValue,
          gainLoss      |-> obj[i].value.gainLoss ] ]

RenderStale(list) ==
    UNCHANGED <<groupedBySector, chartData, tainted>>

\* one evaluation of the component function with `data` = list
Render(list) ==
    LET acc == GroupedBySector(list)
    IN /\ groupedBySector' = acc.own
       /\ chartData' = ChartData(acc.own)
       /\ tainted' = tainted \cup acc.hit

----------------------------------------------------------------------------
(* The component *)

Init ==
    /\ mounted = "pending"
    /\ timer = FALSE
    /\ ticks = 0
    /\ issued = 0
    /\ inflight = {}
    /\ resolved = {}
    /\ failSeen = 0
    /\ portfolio = <<>>
    /\ data = <<>>
    /\ dataFrom = 0
    /\ setAfterCleanup = FALSE
    /\ groupedBySector = <<>>
    /\ chartData = <<>>
    /\ tainted = {}
    /\ pc = "idle"

\* fetchAndSet up to its await: one more request in flight
StartFetch ==
    /\ issued' = issued + 1
    /\ inflight' = inflight \cup {issued + 1}

\* the effect body: fetchAndSet(); setInterval(fetchAndSet, 15000)
Mount ==
    /\ mounted = "pending"
    /\ mounted' = "mounted"
    /\ StartFetch
    /\ timer' = TRUE
    /\ UNCHANGED <<ticks, resolved, failSeen, portfolio, data, dataFrom,
                   setAfterCleanup, groupedBySector, chartData, tainted, pc>>

TickGuarded ==
    /\ timer
    /\ inflight = {}
    /\ issued < MaxFetches
    /\ ticks' = ticks + 1
    /\ StartFetch
    /\ UNCHANGED <<mounted, timer, resolved, failSeen, portfolio, data, dataFrom,
                   setAfterCleanup, groupedBySector, chartData, tainted, pc>>

\* the interval callback
Tick ==
    /\ timer
    /\ issued < MaxFetches
    /\ ticks' = ticks + 1
    /\ StartFetch
    /\ UNCHANGED <<mounted, timer, resolved, failSeen, portfolio, data, dataFrom,
                   setAfterCleanup, groupedBySector, chartData, tainted, pc>>

FetchSuccessMerge(id, p) ==
    /\ id \in inflight
    /\ inflight' = inflight \ {id}
    /\ resolved' = resolved \cup {id}
    /\ portfolio' = p
    /\ data' = data \o p
    /\ dataFrom' = id
    /\ setAfterCleanup' = ~timer
    /\ Render(data \o p)
    /\ UNCHANGED <<mounted, timer, ticks, issued, failSeen, pc>>

FetchSuccessLatestOnly(id, p) ==
    /\ id \in inflight
    /\ inflight' = inflight \ {id}
    /\ resolved' = resolved \cup {id}
    /\ portfolio' = p
    /\ IF id > dataFrom
       THEN /\ data' = p
            /\ dataFrom' = id
            /\ setAfterCleanup' = ~timer
            /\ Render(p)
       ELSE UNCHANGED <<data, dataFrom, setAfterCleanup, groupedBySector, chartData, tainted>>
    /\ UNCHANGED <<mounted, timer, ticks, issued, failSeen, pc>>

\* fetchPortfolio() fulfils with p: setData(p), then the component re-renders
FetchSuccess(id, p) ==
    /\ id \in inflight
    /\ inflight' = inflight \ {id}
    /\ resolved' = resolved \cup {id}
    /\ portfolio' = p
    /\ data' = p
    /\ dataFrom' = id
    /\ setAfterCleanup' = ~timer
    /\ Render(p)
    /\ UNCHANGED <<mounted, timer, ticks, issued, failSeen, pc>>

FetchFailClears(id) ==
    /\ id \in inflight
    /\ inflight' = inflight \ {id}
    /\ failSeen' = issued
    /\ data' = <<>>
    /\ Render(<<>>)
    /\ UNCHANGED <<mounted, timer, ticks, issued, resolved, portfolio, dataFrom,
                   setAfterCleanup, pc>>

\* fetchPortfolio() rejects: fetchAndSet's promise rejects, nobody observes it
FetchFail(id) ==
    /\ id \in inflight
    /\ inflight' = inflight \ {id}
    /\ failSeen' = issued
    /\ UNCHANGED <<mounted, timer, ticks, issued, resolved, portfolio, data, dataFrom,
                   setAfterCleanup, groupedBySector, chartData, tainted, pc>>

TeardownKeepsTimer ==
    /\ mounted = "mounted"
    /\ mounted' = "unmounted"
    /\ UNCHANGED <<timer, ticks, issued, inflight, resolved, failSeen, portfolio, data,
                   dataFrom, setAfterCleanup, groupedBySector, chartData, tainted, pc>>

TeardownCancels ==
    /\ mounted = "mounted"
    /\ mounted' = "unmounted"
    /\ timer' = FALSE
    /\ inflight' = {}
    /\ UNCHANGED <<ticks, issued, resolved, failSeen, portfolio, data, dataFrom,
                   setAfterCleanup, groupedBySector, chartData, tainted, pc>>

\* the effect cleanup: clearInterval(interval)
Teardown ==
    /\ mounted = "mounted"
    /\ mounted' = "unmounted"
    /\ timer' = FALSE
    /\ UNCHANGED <<ticks, issued, inflight, resolved, failSeen, portfolio, data, dataFrom,
                   setAfterCleanup, groupedBySector, chartData, tainted, pc>>

Next ==
    \/ Mount
    \/ Tick
    \/ \E id \in 1..MaxFetches, p \in Responses : FetchSuccess(id, p)
    \/ \E id \in 1..MaxFetches : FetchFail(id)
    \/ Teardown

Spec == Init /\ [][Next]_vars

----------------------------------------------------------------------------
(* The aggregation on its own: the component function evaluated once on an *)
(* arbitrary holdings list                                                 *)

InitAgg ==
    /\ mounted = "mounted"
    /\ timer = TRUE
    /\ ticks = 0
    /\ issued = 1
    /\ inflight = {}
    /\ resolved = {1}
    /\ failSeen = 0
    /\ data \in AggInputs
    /\ portfolio = data
    /\ dataFrom = 1
    /\ setAfterCleanup = FALSE
    /\ groupedBySector = <<>>
    /\ chartData = <<>>
    /\ tainted = {}
    /\ pc = "render"

RenderData ==
    /\ pc = "render"
    /\ pc' = "idle"
    /\ Render(data)
    /\ UNCHANGED <<mounted, timer, ticks, issued, inflight, resolved, failSeen,
                   portfolio, data, dataFrom, setAfterCleanup>>

NextAgg == RenderData

SpecAgg == InitAgg /\ [][NextAgg]_vars

----------------------------------------------------------------------------
(* Properties *)

RECURSIVE SumWhere(_, _, _)
\* the sum of field f over the holdings of list that are grouped under key k
SumWhere(list, k, f) ==
    IF list = <<>> THEN 0
    ELSE (IF ToPropertyKey(Head(list).sector) = k THEN Head(list)[f] ELSE 0)
         + SumWhere(Tail(list), k, f)

RECURSIVE Total(_, _)
\* the sum of field f over all holdings of list
Total(list, f) == IF list = <<>> THEN 0 ELSE Head(list)[f] + Total(Tail(list), f)

RECURSIVE SumEntries(_, _)
\* the sum of field f over all sector summaries
SumEntries(obj, f) == IF obj = <<>> THEN 0 ELSE Head(obj).value[f] + SumEntries(Tail(obj), f)

CountWhere(list, k) == Cardinality({ i \in 1..Len(list) : ToPropertyKey(list[i].sector) = k })

MaxOf(S) == CHOOSE m \in S : \A n \in S : n <= m

\* C1: for every sector key that groupedBySector produces, each of the four
\* summed fields equals the sum of that field over exactly the holdings of
\* the input whose sector is that key.
C1_SectorSums ==
    pc = "idle" =>
        \A i \in 1..Len(groupedBySector) : \A f \in Fields :
            groupedBySector[i].value[f] = SumWhere(data, groupedBySector[i].key, f)

\* a rendered list with two sectors, one of them holding two or more stocks
C1_Witness ==
    /\ pc = "idle"
    /\ Len(groupedBySector) >= 2
    /\ \E i \in 1..Len(groupedBySector) : CountWhere(data, groupedBySector[i].key) >= 2

\* C2: the set of sector keys of groupedBySector, and of the names of
\* chartData, equals the set of distinct sector values of the input list,
\* whatever strings they are.
C2_KeysAreSectors ==
    pc = "idle" =>
        /\ OwnKeys(groupedBySector) = { ToPropertyKey(data[i].sector) : i \in 1..Len(data) }
        /\ { chartData[i].name : i \in 1..Len(chartData) }
               = { ToPropertyKey(data[i].sector) : i \in 1..Len(data) }

\* C3: after the effect cleanup has run no fetch is started any more, and
\* before it every firing of the interval starts exactly one fetch.
C3_TimerCancelled ==
    [][ /\ mounted = "unmounted" =>
              /\ issued' = issued
              /\ ticks' = ticks
              /\ inflight' \subseteq inflight
        /\ ticks' # ticks =>
              /\ mounted = "mounted"
              /\ ticks' = ticks + 1
              /\ issued' = issued + 1
              /\ inflight' = inflight \cup {issued + 1} ]_vars

\* the component torn down after the interval has fired, a fetch still pending
C3_Witness ==
    /\ mounted = "unmounted"
    /\ ticks >= 1
    /\ inflight # {}

\* C4: data is the empty list until the first fetch fulfils, a fulfilled
\* fetch makes data exactly the list it returned, and nothing else changes
\* data.
C4_FullReplacement ==
    /\ [](IF resolved = {} THEN data = <<>> ELSE data = portfolio)
    /\ [][ /\ resolved' = resolved => data' = data
           /\ resolved' # resolved => data' = portfolio' ]_vars

\* a second fulfilled fetch has replaced a non-empty collection by a shorter one
C4_Witness ==
    /\ Cardinality(resolved) >= 2
    /\ Len(data) = 1
    /\ data = portfolio
    /\ groupedBySector # <<>>

\* C5: a rejected fetch changes neither the collection nor anything rendered
\* from it, records nothing, and leaves the interval running.
C5_SilentFailure ==
    [][ (\E id \in inflight \ inflight' : id \notin resolved') =>
            /\ data' = data
            /\ portfolio' = portfolio
            /\ dataFrom' = dataFrom
            /\ groupedBySector' = groupedBySector
            /\ chartData' = chartData
            /\ timer' = timer
            /\ mounted' = mounted
            /\ issued' = issued ]_vars

\* after a rejection the interval fired again and the fetch it started set data
C5_Witness ==
    /\ failSeen > 0
    /\ dataFrom > failSeen
    /\ data # <<>>
    /\ timer

\* C6: while the interval is registered a tick can start a fetch however
\* many fetches are in flight, and it adds one more to them.
C6_NoOverlapGuard ==
    (timer /\ issued < MaxFetches) =>
        ENABLED (Tick /\ Cardinality(inflight') = Cardinality(inflight) + 1)

\* every fetch the run may start is in flight at once
C6_Witness ==
    /\ Cardinality(inflight) >= 2
    /\ inflight = 1..MaxFetches

\* C7: the cleanup leaves the in-flight fetches in flight, starts none, and a
\* fetch that fulfils after the cleanup still calls setData with its result.
C7_NoCancellation ==
    [][ /\ (mounted = "mounted" /\ mounted' = "unmounted") =>
              /\ inflight' = inflight
              /\ data' = data
        /\ mounted = "unmounted" => issued' = issued
        /\ (mounted = "unmounted" /\ resolved' # resolved) =>
              /\ dataFrom' \in inflight
              /\ data' = portfolio'
              /\ setAfterCleanup' ]_vars

\* data was set by a fetch that fulfilled after clearInterval
C7_Witness ==
    /\ mounted = "unmounted"
    /\ setAfterCleanup
    /\ dataFrom # 0
    /\ data = portfolio

\* C8: for each of the four fields the total over all sector summaries equals
\* the total of the field over all holdings of the input list.
C8_TotalsPreserved ==
    pc = "idle" =>
        \A f \in Fields : SumEntries(groupedBySector, f) = Total(data, f)

\* C9 as stated: the collection always holds the result of the fetch that
\* was issued last among the fulfilled ones.
C9_LatestIssuedWins ==
    resolved # {} => dataFrom = MaxOf(resolved)

\* C9 amended: every fulfilled fetch replaces the collection, whatever the
\* order of issue, so the collection holds the result of the fetch that
\* fulfilled last.
C9_LastCompletedWins ==
    [][ \A id \in resolved' \ resolved : dataFrom' = id /\ data' = portfolio' ]_vars

\* all fetches fulfilled, and the collection is from one issued before another
C9_Witness ==
    /\ inflight = {}
    /\ resolved = 1..issued
    /\ \E id \in resolved : id > dataFrom

\* C10: groupedBySector is the aggregation of the current data, and chartData
\* has one row per sector of groupedBySector, in the same order, with that
\* sector's four sums.
C10_RenderFresh ==
    /\ groupedBySector = GroupedBySector(data).own
    /\ Len(chartData) = Len(groupedBySector)
    /\ \A i \in 1..Len(groupedBySector) :
          /\ chartData[i].name = groupedBySector[i].key
          /\ \A f \in Fields : chartData[i][f] = groupedBySector[i].value[f]

\* two sectors rendered in property order after a rejection and two fulfilments
C10_Witness ==
    /\ failSeen > 0
    /\ Cardinality(resolved) >= 2
    /\ Len(data) = 2
    /\ Len(chartData) = 2
    /\ chartData[1].name = "7"
    /\ data[1].sector = "Tech"

====
